---- MODULE Spec2Model ----
(***************************************************************************)
(* Session-report ingestion of the DaVinci AI backend                      *)
(* (src/app/webhooks/session.py, ingest_session_report).                   *)
(*                                                                         *)
(* Every delivery of a session report is one run of the handler on a       *)
(* database session of its own.  The handler is cut at its awaits on the   *)
(* database: the duplicate pre-check, the agent look-ups, the wallet read  *)
(* and the commit.  The store (call_logs, wallets, transactions) is what   *)
(* PostgreSQL holds committed; what a handler has only added to its        *)
(* session is in local[p] until its commit.                                *)
(*                                                                         *)
(* Money is counted in euro cents, durations in tenths of a second.        *)
(* Python's None is the string "None"; Python values that end in a column  *)
(* of the call log are kept as strings ("False", "0", "NORMAL").           *)
(***************************************************************************)
EXTENDS Integers, Sequences, FiniteSets, TLC

VARIABLES
    autoflush,  \* whether the handler's database session flushes before a query
    agents,     \* the agents table (never written by the handler)
    calls,      \* the committed rows of call_logs, in commit order
    wallets,    \* wallet_id -> committed balance, in cents
    txns,       \* the committed rows of transactions, in commit order
    phase,      \* per delivery: where its handler stands
    event,      \* per delivery: the payload it was called with
    local,      \* per delivery: the handler's locals and its session's pending rows
    failures,   \* storage errors injected so far
    failed_events \* payloads of which some delivery has ended in a 500

vars == <<autoflush, agents, calls, wallets, txns, phase, event, local,
          failures, failed_events>>

store == <<calls, wallets, txns>>

----------------------------------------------------------------------------
(* Bounds of the model *)

MaxDeliveries == 2
MaxFailures == 1
InitialBalance == 60
MaxRemovals == 1

\* The deliveries that run concurrently, and the ones of the retry scenario:
\* one that fails and MaxDeliveries more of the same payload.
Deliveries == 1..MaxDeliveries
RetryDeliveries == 1..(MaxDeliveries + 1)

----------------------------------------------------------------------------
(* Values *)

None == "None"
PyFalse == "False"
PyTrue == "True"

Agent(id, tenant, name, wallet, rate, active) ==
    [agent_id |-> id, tenant_id |-> tenant, agent_name |-> name,
     wallet_id |-> wallet, cost_per_minute |-> rate, is_active |-> active]

NoAgent == Agent(None, None, None, None, 0, FALSE)

\* a1 and a2 carry the same name in two tenants; a3 has no wallet and is
\* inactive; a4 names a wallet that does not exist and has a rate of its
\* own, in cents per minute; a5 shares a1's wallet.
AgentPool ==
    { Agent("a1", "t1", "demo", "w1", 25, TRUE),
      Agent("a2", "t2", "demo", "w2", 25, TRUE),
      Agent("a3", "t2", "sales", None, 25, FALSE),
      Agent("a4", "t3", "support", "w9", 40, TRUE),
      Agent("a5", "t1", "sales", "w1", 25, TRUE) }

WalletIds == {"w1", "w2"}

\* The analysis payload: a dict (or nothing) with two sub-values of any JSON
\* shape.  A key of a sub-dict is "missing", "null", or holds a value.
Container(kind, fields) == [kind |-> kind, f |-> fields]

NoMetrics ==
    [frustration_velocity |-> "missing", agent_iq |-> "missing",
     avg_sentiment |-> "missing", correction_count |-> "missing"]

NoSignals ==
    [sentiment_score |-> "missing", is_churn_risk |-> "missing",
     is_hot_lead |-> "missing", priority_level |-> "missing"]

Analysis(kind, m, b) == [kind |-> kind, metrics |-> m, business_signals |-> b]

NoAnalysis ==
    Analysis("absent", Container("missing", NoMetrics), Container("missing", NoSignals))

\* user_id as sent: its text, whether it holds a "." and is longer than 50
\* characters, and what its second segment decodes to.
UserId(text, dotted, long, seg, sub, tenant) ==
    [text |-> text, dotted |-> dotted, long |-> long, segment |-> seg,
     sub |-> sub, tenant_id |-> tenant]

Anonymous == UserId("anonymous", FALSE, FALSE, "none", None, None)

SessionReportPayload(sid, uid, name, aid, tid, dur, an) ==
    [session_id |-> sid, user_id |-> uid, agent_name |-> name, agent_id |-> aid,
     tenant_id |-> tid, start_time |-> None, end_time |-> None,
     duration_seconds |-> dur, status |-> "completed", caller_id |-> None,
     analysis |-> an]

NoEvent == SessionReportPayload(None, Anonymous, None, None, None, 0, NoAnalysis)

CallLog(sid, aid, st, et, dur, caller, sig, cost) ==
    [id |-> sid, agent_id |-> aid, start_time |-> st, end_time |-> et,
     duration_seconds |-> dur, status |-> "completed", caller_id |-> caller,
     signals |-> sig, cost_euros |-> cost]

DefaultSignals ==
    [sentiment_score |-> None, frustration_velocity |-> None, agent_iq |-> None,
     avg_sentiment |-> None, correction_count |-> "0", is_churn_risk |-> PyFalse,
     is_hot_lead |-> PyFalse, priority_level |-> "NORMAL"]

NoRow == CallLog(None, None, None, None, 0, None, DefaultSignals, 0)

Transaction(wid, tid, amount, ref) ==
    [wallet_id |-> wid, tenant_id |-> tid, type |-> "deduction",
     amount_euros |-> amount, reference_id |-> ref]

NoTxn == Transaction(None, None, 0, None)

\* The handler's locals and the pending state of its database session.
NoLocal ==
    [user_id |-> None, tenant_id |-> None, agent |-> NoAgent, cost |-> 0,
     call_log |-> NoRow, pc |-> "-", flushed |-> FALSE,
     wallet_found |-> FALSE, balance_read |-> 0, balance |-> 0, txn |-> NoTxn,
     error |-> None, retry |-> FALSE]

----------------------------------------------------------------------------
(* The pure parts of the handler *)

\* Mutant: every dotted user_id is decoded, whatever its length.
ClaimsDecodedAnyLength(uid) == uid.dotted /\ uid.segment = "claims"

\* Lines 69-80: the user_id is decoded only if it holds a "." and is longer
\* than 50 characters, and the decode yields claims only if the second
\* segment is base64 of a JSON object; every failure is swallowed (94-95).
ClaimsDecoded(uid) == uid.dotted /\ uid.long /\ uid.segment = "claims"

\* Lines 65, 83-88: the user id the handler goes on with.
DecodedUserId(uid) ==
    IF ClaimsDecoded(uid) /\ uid.sub # None THEN uid.sub ELSE uid.text

\* Mutant: the tenant of the claims replaces the one of the payload.
TenantFromClaims(ev) ==
    IF ClaimsDecoded(ev.user_id) /\ ev.user_id.tenant_id # None
    THEN ev.user_id.tenant_id
    ELSE ev.tenant_id

\* Lines 84, 89-93: payload.tenant_id after the claims were read.
TenantAfterClaims(ev) ==
    IF ClaimsDecoded(ev.user_id) /\ ev.user_id.tenant_id # None /\ ev.tenant_id = None
    THEN ev.user_id.tenant_id
    ELSE ev.tenant_id

ById(dir, aid) == {a \in dir : a.agent_id = aid}
ByNameAndTenant(dir, name, tid) ==
    {a \in dir : a.agent_name = name /\ a.tenant_id = tid}
ByName(dir, name) == {a \in dir : a.agent_name = name}
ByTenant(dir, tid) == {a \in dir : a.tenant_id = tid}

\* Mutant: the name is looked up in all tenants before the tenant is used.
ResolveCandidatesNameFirst(dir, aid, name, tid) ==
    IF aid # None /\ ById(dir, aid) # {} THEN ById(dir, aid)
    ELSE IF name # None /\ ByName(dir, name) # {} THEN ByName(dir, name)
    ELSE IF tid # None THEN ByTenant(dir, tid)
    ELSE {}

\* Mutant: when nothing matches, any agent of the directory is the default.
ResolveCandidatesAnyAgent(dir, aid, name, tid) ==
    IF aid # None /\ ById(dir, aid) # {} THEN ById(dir, aid)
    ELSE IF name # None /\ tid # None /\ ByNameAndTenant(dir, name, tid) # {}
         THEN ByNameAndTenant(dir, name, tid)
    ELSE IF name # None /\ ByName(dir, name) # {} THEN ByName(dir, name)
    ELSE IF tid # None /\ ByTenant(dir, tid) # {} THEN ByTenant(dir, tid)
    ELSE dir

\* Mutant: the name and the tenant are looked up before the agent id.
ResolveCandidatesIdLast(dir, aid, name, tid) ==
    IF name # None /\ tid # None /\ ByNameAndTenant(dir, name, tid) # {}
    THEN ByNameAndTenant(dir, name, tid)
    ELSE IF name # None /\ ByName(dir, name) # {} THEN ByName(dir, name)
    ELSE IF aid # None /\ ById(dir, aid) # {} THEN ById(dir, aid)
    ELSE IF tid # None THEN ByTenant(dir, tid)
    ELSE {}

\* Lines 97-130: the rows .first() may return.  No query is ordered, so each
\* step may return any of its matching rows; a step is tried only when the
\* steps before it returned nothing.
ResolveCandidates(dir, aid, name, tid) ==
    IF aid # None /\ ById(dir, aid) # {} THEN ById(dir, aid)
    ELSE IF name # None /\ tid # None /\ ByNameAndTenant(dir, name, tid) # {}
         THEN ByNameAndTenant(dir, name, tid)
    ELSE IF name # None /\ ByName(dir, name) # {} THEN ByName(dir, name)
    ELSE IF tid # None THEN ByTenant(dir, tid)
    ELSE {}

\* Line 139: int(payload.duration_seconds), the duration being in tenths.
DurationSecs(ev) == ev.duration_seconds \div 10

CostPerMinuteCents == 25

\* BILLING_RULES.calculate_call_cost: minutes times the per-minute rate,
\* rounded to the cent.
CalculateCallCost(secs) == (secs * CostPerMinuteCents + 30) \div 60

\* dict.get(key) on a key that is missing, null or holds a value.
Get(tok) == IF tok \in {"missing", "null"} THEN None ELSE tok

\* Mutant: the default of dict.get is left out.
GetNoDefault(tok, default) == IF tok \in {"missing", "null"} THEN None ELSE tok

\* dict.get(key, default): the default only for a missing key.
GetDefault(tok, default) ==
    IF tok = "missing" THEN default ELSE IF tok = "null" THEN None ELSE tok

\* Lines 156-161: analysis.get("metrics", {}) read field by field when it is
\* a dict.
MetricsOf(an) ==
    IF an.metrics.kind = "missing" THEN NoMetrics ELSE an.metrics.f
MetricsIsDict(an) == an.metrics.kind \in {"missing", "dict"}

\* Lines 164-169: the same for business_signals.
BusinessSignalsOf(an) ==
    IF an.business_signals.kind = "missing" THEN NoSignals
    ELSE an.business_signals.f
BusinessSignalsIsDict(an) == an.business_signals.kind \in {"missing", "dict"}

\* Mutant: the sub-objects are read without the isinstance tests.
ReadsNonDictUnguarded(an) ==
    /\ an.kind = "dict"
    /\ \/ an.metrics.kind \notin {"missing", "dict"}
       \/ an.business_signals.kind \notin {"missing", "dict"}

\* .get is called on a value that is no dict: an AttributeError.  The
\* isinstance tests of lines 157 and 165 keep the handler from it.
ReadsNonDict(an) ==
    /\ an.kind = "dict"
    /\ \/ MetricsIsDict(an) /\ an.metrics.kind \notin {"missing", "dict"}
       \/ BusinessSignalsIsDict(an)
            /\ an.business_signals.kind \notin {"missing", "dict"}

\* Lines 143-171: the signals written to the call log.
ExtractSignals(an) ==
    IF an.kind # "dict" THEN DefaultSignals
    ELSE
      [sentiment_score |->
         IF BusinessSignalsIsDict(an)
         THEN Get(BusinessSignalsOf(an).sentiment_score) ELSE None,
       frustration_velocity |->
         IF MetricsIsDict(an) THEN Get(MetricsOf(an).frustration_velocity) ELSE None,
       agent_iq |->
         IF MetricsIsDict(an) THEN Get(MetricsOf(an).agent_iq) ELSE None,
       avg_sentiment |->
         IF MetricsIsDict(an) THEN Get(MetricsOf(an).avg_sentiment) ELSE None,
       correction_count |->
         IF MetricsIsDict(an)
         THEN GetDefault(MetricsOf(an).correction_count, "0") ELSE "0",
       is_churn_risk |->
         IF BusinessSignalsIsDict(an)
         THEN GetDefault(BusinessSignalsOf(an).is_churn_risk, PyFalse) ELSE PyFalse,
       is_hot_lead |->
         IF BusinessSignalsIsDict(an)
         THEN GetDefault(BusinessSignalsOf(an).is_hot_lead, PyFalse) ELSE PyFalse,
       priority_level |->
         IF BusinessSignalsIsDict(an)
         THEN GetDefault(BusinessSignalsOf(an).priority_level, "NORMAL")
         ELSE "NORMAL"]

\* datetime.fromisoformat(s.replace('Z', '+00:00')), lines 178 and 180: the
\* strings it parses, and the datetime of each; any other string raises a
\* ValueError.
IsoFormat ==
    [x \in {"2024-01-01T10:00:00Z", "2024-01-01T10:02:05+00:00"} |->
        IF x = "2024-01-01T10:00:00Z" THEN "dt(2024-01-01 10:00:00 UTC)"
        ELSE "dt(2024-01-01 10:02:05 UTC)"]

Parses(s) == s \in DOMAIN IsoFormat

\* datetime.utcnow(), lines 183 and 186.
UtcNow == "utcnow"

\* Mutant: each string is parsed in a try of its own.
ParseTimestampsApart(ev) ==
    [start_time |->
        IF ev.start_time # None /\ Parses(ev.start_time)
        THEN IsoFormat[ev.start_time] ELSE UtcNow,
     end_time |->
        IF ev.end_time # None /\ Parses(ev.end_time)
        THEN IsoFormat[ev.end_time] ELSE None]

\* Lines 174-186: both strings are parsed in one try, the start first; a
\* string that does not parse ends the try, and the start is the time of the
\* ingestion then, as it is when there is no start.
ParseTimestamps(ev) ==
    LET hasStart == ev.start_time # None
        hasEnd == ev.end_time # None
        startFails == hasStart /\ ~Parses(ev.start_time)
        endFails == ~startFails /\ hasEnd /\ ~Parses(ev.end_time)
    IN  [start_time |->
            IF startFails \/ endFails \/ ~hasStart THEN UtcNow
            ELSE IsoFormat[ev.start_time],
         end_time |->
            IF startFails \/ endFails \/ ~hasEnd THEN None
            ELSE IsoFormat[ev.end_time]]

\* The types of the signal columns of call_logs, and the type of each value
\* a report may carry in their place.
ColumnType ==
    [sentiment_score |-> "FLOAT", frustration_velocity |-> "VARCHAR",
     agent_iq |-> "FLOAT", avg_sentiment |-> "FLOAT",
     correction_count |-> "INTEGER", is_churn_risk |-> "BOOLEAN",
     is_hot_lead |-> "BOOLEAN", priority_level |-> "VARCHAR"]

TypeOf(v) ==
    IF v = None THEN "NULL"
    ELSE IF v \in {"0", "3", "7"} THEN "INTEGER"
    ELSE IF v \in {"0.5", "0.7", "0.9"} THEN "FLOAT"
    ELSE IF v \in {PyFalse, PyTrue} THEN "BOOLEAN"
    ELSE "VARCHAR"

\* The insert of a call log takes a value for a column when it is None (the
\* columns are nullable) or of the column's type, an integer also for a
\* float; any other value is refused when the parameters of the insert are
\* encoded, as a DataError.
ColumnAccepts(col, v) ==
    \/ TypeOf(v) \in {"NULL", ColumnType[col]}
    \/ ColumnType[col] = "FLOAT" /\ TypeOf(v) = "INTEGER"

RowAccepted(row) ==
    \A col \in DOMAIN ColumnType : ColumnAccepts(col, row.signals[col])

\* Lines 189-208: the row the handler adds to its session.
NewCallLog(ev, agent, user_id) ==
    CallLog(ev.session_id, agent.agent_id,
            ParseTimestamps(ev).start_time, ParseTimestamps(ev).end_time,
            DurationSecs(ev),
            IF ev.caller_id # None THEN ev.caller_id ELSE user_id,
            ExtractSignals(ev.analysis),
            CalculateCallCost(DurationSecs(ev)))

\* Mutant: the ledger row carries the cost, not its negation.
NewTransactionUnsigned(ev, agent, cost) ==
    Transaction(agent.wallet_id, agent.tenant_id, cost, ev.session_id)

\* Lines 222-229: the ledger row of a debit.
NewTransaction(ev, agent, cost) ==
    Transaction(agent.wallet_id, agent.tenant_id, 0 - cost, ev.session_id)

----------------------------------------------------------------------------
(* The store *)

RowsOf(sid) == {i \in 1..Len(calls) : calls[i].id = sid}
TxnsOf(sid) == {i \in 1..Len(txns) : txns[i].reference_id = sid}

\* Mutant: the pre-check compares the agent id column with the session id.
ExistingByAgentId(sid) == \E i \in 1..Len(calls) : calls[i].agent_id = sid

\* Mutant: the handler goes to the resolution without the pre-check.
ExistingNever(sid) == FALSE

\* select(CallLog).where(CallLog.id == session_id), lines 53-56: only
\* committed rows are seen.
Existing(sid) == RowsOf(sid) # {}

\* The key of call_logs is the session id: a committed row of it makes an
\* insert of the same id fail with an IntegrityError.
KeyCommitted(sid) == RowsOf(sid) # {}

\* Another session holds an uncommitted insert of the same key: PostgreSQL
\* makes a second insert of that key wait for the first one's end.
KeyHeldByOther(p) ==
    \E q \in RetryDeliveries \ {p} :
        local[q].flushed /\ event[q].session_id = event[p].session_id

----------------------------------------------------------------------------
(* The handler, one action per stretch between two awaits on the database *)

SessionId(p) == event[p].session_id

\* Mutant: the error response is sent without a rollback of the session.
NotRolledBack(l, err) == [l EXCEPT !.error = err]

\* Lines 240 and 244: db.rollback() drops what the session had flushed and
\* what it held pending.
RolledBack(l, err) == [l EXCEPT !.flushed = FALSE, !.pc = "-", !.error = err]

\* An exception leaves the handler: the request ends in a 500 and the
\* session of the request is closed, which rolls its transaction back.
SessionClosed(l, err) == [l EXCEPT !.flushed = FALSE, !.pc = "-", !.error = err]

\* Lines 41-58: a delivery of the payload arrives and the handler looks for
\* a committed row of the session id.  Deliveries are numbered in the order
\* of their arrival.
DuplicateCheck(p, ev) ==
    /\ phase[p] = "idle"
    /\ IF p = 1 THEN TRUE ELSE phase[p - 1] # "idle"
    /\ event' = [event EXCEPT ![p] = ev]
    /\ local' = [local EXCEPT ![p].retry = ev \in failed_events]
    /\ phase' = [phase EXCEPT ![p] =
                    IF Existing(ev.session_id) THEN "duplicate" ELSE "resolving"]
    /\ UNCHANGED <<autoflush, agents, calls, wallets, txns, failures, failed_events>>

\* Mutant: the wallet is left out, the call log goes to the commit alone.
ComputedWithoutDebit(l, ev, a) ==
    [l EXCEPT !.agent = a,
              !.cost = CalculateCallCost(DurationSecs(ev)),
              !.call_log = NewCallLog(ev, a, l.user_id),
              !.pc = "commit"]

\* Lines 138-212: cost, signals and the call log, added to the session.
Computed(l, ev, a) ==
    [l EXCEPT !.agent = a,
              !.cost = CalculateCallCost(DurationSecs(ev)),
              !.call_log = NewCallLog(ev, a, l.user_id),
              !.pc = IF a.wallet_id # None THEN "wallet" ELSE "commit"]

\* Lines 64-212: the claims of the user_id, then the agent (404 without
\* one), then the cost, the signals and the call log.  Nothing here reads
\* or writes a table the handlers write.  An exception of the signal
\* extraction would leave the handler as a 500.
ResolveAgent(p) ==
    /\ phase[p] = "resolving"
    /\ LET ev == event[p]
           tid == TenantAfterClaims(ev)
           found == ResolveCandidates(agents, ev.agent_id, ev.agent_name, tid)
           l == [local[p] EXCEPT !.user_id = DecodedUserId(ev.user_id),
                                 !.tenant_id = tid]
       IN  IF found = {}
           THEN /\ phase' = [phase EXCEPT ![p] = "rejected"]
                /\ local' = [local EXCEPT ![p] = [l EXCEPT !.error = "404"]]
                /\ UNCHANGED failed_events
           ELSE IF ReadsNonDict(ev.analysis)
           THEN /\ phase' = [phase EXCEPT ![p] = "failed"]
                /\ \E a \in found :
                     local' = [local EXCEPT ![p] =
                                 SessionClosed([l EXCEPT !.agent = a], "AttributeError")]
                /\ failed_events' = failed_events \cup {ev}
           ELSE /\ phase' = [phase EXCEPT ![p] = "persisting"]
                /\ \E a \in found : local' = [local EXCEPT ![p] = Computed(l, ev, a)]
                /\ UNCHANGED failed_events
    /\ UNCHANGED <<autoflush, agents, calls, wallets, txns, event, failures>>

\* Mutant: a debit stops at a balance of zero.
NewBalanceFloored(balance, cost) ==
    IF balance - cost < 0 THEN 0 ELSE balance - cost

\* Line 220: the balance the handler writes back.
NewBalance(balance, cost) == balance - cost

\* The insert of the pending call log is refused for a value that its
\* column does not take, before the row reaches the table.
InsertRefused(p) == ~local[p].flushed /\ ~RowAccepted(local[p].call_log)

\* call_logs.agent_id references agents.agent_id: the insert of a call
\* log whose agent is no longer in the table fails with an IntegrityError.
ReferenceViolated(p) ==
    /\ ~local[p].flushed
    /\ \A a \in agents : a.agent_id # local[p].agent.agent_id

\* Lines 212-213: the select of the wallet is sent for an agent with a
\* wallet id only, and a flushing session sends the pending insert of the
\* call log before it.
Flushes(p) == autoflush /\ local[p].agent.wallet_id # None

\* Lines 213-230: the wallet is read and the debit prepared.  A flushing
\* session sends the pending insert of the call log first; a refused value
\* or a violation of its key or of its reference is raised here, outside
\* the try of line 237, and ends in a 500.
WalletRead(p) ==
    /\ phase[p] = "persisting"
    /\ local[p].pc = "wallet"
    /\ ~(Flushes(p) /\ ~InsertRefused(p) /\ KeyHeldByOther(p))
    /\ LET wid == local[p].agent.wallet_id
           found == wid \in DOMAIN wallets
       IN  IF Flushes(p) /\ InsertRefused(p)
           THEN /\ phase' = [phase EXCEPT ![p] = "failed"]
                /\ local' = [local EXCEPT ![p] = SessionClosed(@, "DataError")]
                /\ failed_events' = failed_events \cup {event[p]}
           ELSE IF Flushes(p) /\ (KeyCommitted(SessionId(p)) \/ ReferenceViolated(p))
           THEN /\ phase' = [phase EXCEPT ![p] = "failed"]
                /\ local' = [local EXCEPT ![p] = SessionClosed(@, "IntegrityError")]
                /\ failed_events' = failed_events \cup {event[p]}
           ELSE /\ local' = [local EXCEPT
                      ![p].flushed = Flushes(p),
                      ![p].pc = "commit",
                      ![p].wallet_found = found,
                      ![p].balance_read = IF found THEN wallets[wid] ELSE 0,
                      ![p].balance = IF found THEN NewBalance(wallets[wid], local[p].cost)
                                     ELSE 0,
                      ![p].txn = IF found
                                 THEN NewTransaction(event[p], local[p].agent, local[p].cost)
                                 ELSE NoTxn]
                /\ UNCHANGED <<phase, failed_events>>
    /\ UNCHANGED <<autoflush, agents, calls, wallets, txns, event, failures>>

\* The wallet query fails in the storage: the error leaves the handler.
WalletReadFails(p) ==
    /\ phase[p] = "persisting"
    /\ local[p].pc = "wallet"
    /\ failures < MaxFailures
    /\ failures' = failures + 1
    /\ phase' = [phase EXCEPT ![p] = "failed"]
    /\ local' = [local EXCEPT ![p] = SessionClosed(@, "StorageError")]
    /\ failed_events' = failed_events \cup {event[p]}
    /\ UNCHANGED <<autoflush, agents, calls, wallets, txns, event>>

\* The commit sends the insert of the call log unless a flush already did.
UniqueViolation(p) == ~local[p].flushed /\ KeyCommitted(SessionId(p))

\* What a commit writes: the call log and, with a wallet, the balance and
\* the ledger row, all or nothing.
\* Mutant: the commit replaces the table by the one new row.
CommittedCallsReplacing(p) == <<local[p].call_log>>

\* Mutant: the commit leaves out the call log.
CommittedCallsOmitted(p) == calls

CommittedCalls(p) == Append(calls, local[p].call_log)

\* Mutant: the balance is written to the first wallet, whatever the agent.
CommittedWalletsFirst(p) ==
    IF local[p].wallet_found
    THEN [wallets EXCEPT !["w1"] = local[p].balance]
    ELSE wallets

\* Line 220: the new balance is set on the wallet row that line 213 read.
CommittedWallets(p) ==
    IF local[p].wallet_found
    THEN [wallets EXCEPT ![local[p].agent.wallet_id] = local[p].balance]
    ELSE wallets
\* Mutant: the ledger row is written whether or not the wallet was found.
CommittedTxnsAlways(p) == Append(txns, local[p].txn)

CommittedTxns(p) ==
    IF local[p].wallet_found THEN Append(txns, local[p].txn) ELSE txns

\* Lines 237-258: commit; an IntegrityError rolls back and answers
\* duplicate, any other error of the insert rolls back and answers 500.
Commit(p) ==
    /\ phase[p] = "persisting"
    /\ local[p].pc = "commit"
    /\ local[p].flushed \/ InsertRefused(p) \/ ~KeyHeldByOther(p)
    /\ IF InsertRefused(p)
       THEN /\ phase' = [phase EXCEPT ![p] = "failed"]
            /\ local' = [local EXCEPT ![p] = RolledBack(@, "DataError")]
            /\ failed_events' = failed_events \cup {event[p]}
            /\ UNCHANGED <<calls, wallets, txns>>
       ELSE IF UniqueViolation(p) \/ ReferenceViolated(p)
       THEN /\ phase' = [phase EXCEPT ![p] = "duplicate"]
            /\ local' = [local EXCEPT ![p] = RolledBack(@, "IntegrityError")]
            /\ UNCHANGED <<calls, wallets, txns, failed_events>>
       ELSE /\ phase' = [phase EXCEPT ![p] = "ingested"]
            /\ local' = [local EXCEPT ![p].flushed = FALSE, ![p].pc = "-"]
            /\ calls' = CommittedCalls(p)
            /\ wallets' = CommittedWallets(p)
            /\ txns' = CommittedTxns(p)
            /\ UNCHANGED failed_events
    /\ UNCHANGED <<autoflush, agents, event, failures>>

\* Lines 243-246: any other error of the commit rolls back and answers 500.
CommitFails(p) ==
    /\ phase[p] = "persisting"
    /\ local[p].pc = "commit"
    /\ failures < MaxFailures
    /\ failures' = failures + 1
    /\ phase' = [phase EXCEPT ![p] = "failed"]
    /\ local' = [local EXCEPT ![p] = RolledBack(@, "StorageError")]
    /\ failed_events' = failed_events \cup {event[p]}
    /\ UNCHANGED <<autoflush, agents, calls, wallets, txns, event>>

\* The select of the pre-check (lines 53-55) fails in the storage: the error
\* leaves the handler.
DuplicateCheckFails(p, ev) ==
    /\ phase[p] = "idle"
    /\ IF p = 1 THEN TRUE ELSE phase[p - 1] # "idle"
    /\ failures < MaxFailures
    /\ failures' = failures + 1
    /\ event' = [event EXCEPT ![p] = ev]
    /\ phase' = [phase EXCEPT ![p] = "failed"]
    /\ local' = [local EXCEPT ![p] =
                    SessionClosed([@ EXCEPT !.retry = ev \in failed_events],
                                  "StorageError")]
    /\ failed_events' = failed_events \cup {ev}
    /\ UNCHANGED <<autoflush, agents, calls, wallets, txns>>

\* A select of the agent (lines 100-130) fails in the storage: the error
\* leaves the handler.
LookupFails(p) ==
    /\ phase[p] = "resolving"
    /\ failures < MaxFailures
    /\ failures' = failures + 1
    /\ phase' = [phase EXCEPT ![p] = "failed"]
    /\ local' = [local EXCEPT ![p] = SessionClosed(@, "StorageError")]
    /\ failed_events' = failed_events \cup {event[p]}
    /\ UNCHANGED <<autoflush, agents, calls, wallets, txns, event>>

\* Another subsystem deletes an agent.  The delete waits for the end of a
\* session that holds an uncommitted call log of the agent, and is refused
\* when a committed call log refers to the agent.
RemoveAgent(a) ==
    /\ a \in agents
    /\ Cardinality(AgentPool) - Cardinality(agents) < MaxRemovals
    /\ \A i \in 1..Len(calls) : calls[i].agent_id # a.agent_id
    /\ \A p \in RetryDeliveries :
          local[p].flushed => local[p].agent.agent_id # a.agent_id
    /\ agents' = agents \ {a}
    /\ UNCHANGED <<autoflush, calls, wallets, txns, phase, event, local,
                   failures, failed_events>>

Step(p) ==
    \/ ResolveAgent(p)
    \/ WalletRead(p)
    \/ WalletReadFails(p)
    \/ Commit(p)
    \/ CommitFails(p)

----------------------------------------------------------------------------
(* Billing: concurrent deliveries of reports that name their agent *)

Sessions == {"s1", "s2"}
Durations == {600, 1259}
BillingAgents == {"a1", "a3", "a4"}

BillingEvents ==
    {SessionReportPayload(sid, Anonymous, None, aid, None, d, NoAnalysis) :
        sid \in Sessions, aid \in BillingAgents, d \in Durations}

InitStore ==
    /\ calls = <<>>
    /\ wallets = [w \in WalletIds |-> InitialBalance]
    /\ txns = <<>>

InitHandlers ==
    /\ phase = [p \in RetryDeliveries |-> "idle"]
    /\ event = [p \in RetryDeliveries |-> NoEvent]
    /\ local = [p \in RetryDeliveries |-> NoLocal]
    /\ failures = 0
    /\ failed_events = {}

Init ==
    /\ autoflush \in BOOLEAN
    /\ agents = AgentPool
    /\ InitStore
    /\ InitHandlers

Next ==
    \E p \in Deliveries :
        \/ \E ev \in BillingEvents : DuplicateCheck(p, ev)
        \/ Step(p)

Spec == Init /\ [][Next]_vars

----------------------------------------------------------------------------
(* Retry: one payload delivered again and again, with storage errors *)

RetryEvents ==
    {SessionReportPayload("s1", Anonymous, None, "a1", None, 1259, NoAnalysis)}

NextRetry ==
    \E p \in RetryDeliveries :
        \/ \E ev \in RetryEvents : DuplicateCheck(p, ev)
        \/ Step(p)

SpecRetry == Init /\ [][NextRetry]_vars

----------------------------------------------------------------------------
(* Properties *)

Terminal == {"ingested", "duplicate", "rejected", "failed"}

\* The delivery went past the pre-check of lines 53-58.
PassedCheck(p) ==
    /\ phase[p] # "idle"
    /\ ~(phase[p] = "duplicate" /\ local[p].error = None)

\* The wallet the agent of a delivery names exists.
HasWallet(a) == a.wallet_id \in DOMAIN wallets

Racing(sid) == {p \in RetryDeliveries : PassedCheck(p) /\ SessionId(p) = sid}

\* C2. Concurrent duplicate delivery: when two or more deliveries of one
\* session id all passed the pre-check and ended without a storage error,
\* exactly one of them answers ingested and every other one duplicate, and
\* one call log and at most one transaction reference the session id, the
\* transaction being there when the wallet was found.
C2_ConcurrentDuplicate ==
    \A sid \in {event[p].session_id : p \in RetryDeliveries} :
        ( /\ Cardinality(Racing(sid)) >= 2
          /\ \A p \in Racing(sid) :
               phase[p] \in Terminal /\ local[p].error # "StorageError" )
        => /\ Cardinality({p \in Racing(sid) : phase[p] = "ingested"}) = 1
           /\ \A p \in Racing(sid) : phase[p] \in {"ingested", "duplicate"}
           /\ Cardinality(RowsOf(sid)) = 1
           /\ \A p \in Racing(sid) :
                phase[p] = "ingested" =>
                   Cardinality(TxnsOf(sid)) = IF local[p].wallet_found THEN 1 ELSE 0

RECURSIVE SumOfDebits(_, _)
SumOfDebits(S, w) ==
    IF S = {} THEN 0
    ELSE LET p == CHOOSE x \in S : TRUE
         IN  (IF /\ phase[p] = "ingested"
                 /\ local[p].wallet_found
                 /\ local[p].agent.wallet_id = w
              THEN local[p].cost ELSE 0)
             + SumOfDebits(S \ {p}, w)

\* C3. No debit is lost: every wallet's balance is its initial balance minus
\* the costs of all the ingestions that answered ingested on it.
C3_NoLostDebit ==
    \A w \in WalletIds :
        wallets[w] = InitialBalance - SumOfDebits(RetryDeliveries, w)

\* C4. Cost/ledger consistency of one ingestion: the commit of an ingestion
\* whose agent's wallet exists takes the cost off the balance the wallet had
\* and adds one deduction of minus the cost that references the session id.
C4_CostLedgerConsistency ==
    [][\A p \in RetryDeliveries :
         (phase[p] = "persisting" /\ phase'[p] = "ingested" /\ HasWallet(local[p].agent))
         => /\ wallets' = [wallets EXCEPT ![local[p].agent.wallet_id] =
                              @ - CalculateCallCost(DurationSecs(event[p]))]
            /\ \E t \in {txns'[Len(txns')]} :
                 /\ txns' = Append(txns, t)
                 /\ t.type = "deduction"
                 /\ t.amount_euros = 0 - CalculateCallCost(DurationSecs(event[p]))
                 /\ t.reference_id = SessionId(p)
      ]_vars

\* The delivery ended in a 500 for an error of the storage that is no
\* violation of a key.
StorageFailed(p) == phase[p] = "failed" /\ local[p].error = "StorageError"

\* Every delivery that went past the pre-check ended in a storage failure or
\* in a 404.
OnlyFailures ==
    \A p \in RetryDeliveries :
        PassedCheck(p) => (StorageFailed(p) \/ phase[p] = "rejected")

C6_RetrySafety ==
    /\ \A p \in RetryDeliveries :
          phase[p] # "idle" =>
             /\ Cardinality(RowsOf(SessionId(p))) <= 1
             /\ Cardinality(TxnsOf(SessionId(p))) <= 1
    /\ \A p \in RetryDeliveries :
          (local[p].retry /\ phase[p] \in Terminal /\ local[p].error # "StorageError")
          => /\ phase[p] \in {"ingested", "duplicate"}
             /\ phase[p] = "duplicate" => RowsOf(SessionId(p)) # {}

\* C9. A call log without a wallet: the commit of an ingestion whose agent
\* has no wallet id, or a wallet id of no wallet, adds the one call log of
\* the session id, with the computed cost, and neither a transaction nor a
\* change of a balance; such an ingestion that went past the pre-check and
\* met no error answers ingested.
C9_RecordWithoutWallet ==
    [][\A p \in RetryDeliveries :
         /\ (phase[p] = "persisting" /\ phase'[p] = "ingested" /\ ~HasWallet(local[p].agent))
            => /\ txns' = txns
               /\ wallets' = wallets
               /\ \E row \in {calls'[Len(calls')]} :
                    /\ calls' = Append(calls, row)
                    /\ row.id = SessionId(p)
                    /\ row.agent_id = local[p].agent.agent_id
                    /\ row.cost_euros = CalculateCallCost(DurationSecs(event[p]))
               /\ RowsOf(SessionId(p)) = {}
         /\ (phase[p] = "persisting" /\ phase'[p] \in Terminal
               /\ ~HasWallet(local[p].agent) /\ local'[p].error = None)
            => phase'[p] = "ingested"
      ]_vars

C9_Witness ==
    /\ \E p \in Deliveries :
          /\ phase[p] = "ingested" /\ local[p].agent.wallet_id = None
          /\ Cardinality(RowsOf(SessionId(p))) = 1
          /\ TxnsOf(SessionId(p)) = {}
    /\ \E p \in Deliveries :
          /\ phase[p] = "ingested" /\ local[p].agent.wallet_id = "w9"
          /\ Cardinality(RowsOf(SessionId(p))) = 1
          /\ TxnsOf(SessionId(p)) = {}

----------------------------------------------------------------------------
(* Resolution: one delivery, any directory, any identifying fields *)

\* A token that decodes to claims of tenant t2, one whose second segment is
\* no base64, and a short dotted id that is never decoded.
UserIds ==
    { Anonymous,
      UserId("jwt-t2", TRUE, TRUE, "claims", "u2", "t2"),
      UserId("jwt-bad", TRUE, TRUE, "bad_b64", None, None),
      UserId("u.1", TRUE, FALSE, "claims", "u3", "t1") }

ResolveEvents ==
    {SessionReportPayload("s1", uid, name, aid, tid, 600, NoAnalysis) :
        uid \in UserIds,
        name \in {None, "demo", "sales", "nobody"},
        aid \in {None, "a1", "zz"},
        tid \in {None, "t1", "t2", "t4"}}

InitResolve ==
    /\ autoflush \in BOOLEAN
    /\ agents \in SUBSET AgentPool
    /\ InitStore
    /\ InitHandlers

NextResolve ==
    \E p \in {1} :
        \/ \E ev \in ResolveEvents : DuplicateCheck(p, ev)
        \/ ResolveAgent(p)
        \/ WalletRead(p)
        \/ Commit(p)

SpecResolve == InitResolve /\ [][NextResolve]_vars

\* The handler has looked for the agent of the delivery.
Resolved(p) == PassedCheck(p) /\ phase[p] # "resolving"

\* C7. The tenant-scoped name match wins: with no agent id, a name and a
\* tenant id of which exactly one agent of the directory has both, that
\* agent is the resolved one, whatever agents of other tenants carry the
\* name.
C7_TenantScopedNameMatch ==
    \A p \in RetryDeliveries :
        LET ev == event[p]
            match == {a \in agents : a.agent_name = ev.agent_name
                                     /\ a.tenant_id = ev.tenant_id}
        IN  ( /\ Resolved(p)
              /\ ev.agent_id = None /\ ev.agent_name # None /\ ev.tenant_id # None
              /\ Cardinality(match) = 1 )
            => /\ phase[p] # "rejected"
               /\ local[p].agent \in match

C7_Witness ==
    \E p \in RetryDeliveries :
        /\ Resolved(p)
        /\ event[p].agent_id = None
        /\ event[p].agent_name = "demo" /\ event[p].tenant_id = "t2"
        /\ local[p].agent.agent_id = "a2"
        /\ \E a \in agents : a.agent_name = "demo" /\ a.tenant_id = "t1"

\* C8. No cross-tenant default: when no agent has the agent id, none has the
\* agent name and none belongs to the tenant id the handler knows (or it
\* knows none), the ingestion ends in rejected, whatever other agents there
\* are, with nothing added to its session and the store as it was.
C8_RejectedWithoutSideEffects ==
    [][\A p \in RetryDeliveries :
         LET ev == event[p]
             tid == local'[p].tenant_id
         IN  ( /\ phase[p] = "resolving" /\ phase'[p] # "resolving"
               /\ \A a \in agents :
                    /\ ev.agent_id = None \/ a.agent_id # ev.agent_id
                    /\ ev.agent_name = None \/ a.agent_name # ev.agent_name
                    /\ tid = None \/ a.tenant_id # tid )
             => /\ phase'[p] = "rejected"
                /\ calls' = calls /\ txns' = txns /\ wallets' = wallets
                /\ local'[p].call_log = NoRow
                /\ local'[p].txn = NoTxn
                /\ ~local'[p].flushed
      ]_vars

C8_Witness ==
    \E p \in RetryDeliveries :
        /\ phase[p] = "rejected"
        /\ event[p].agent_id = "zz" /\ event[p].agent_name = "nobody"
        /\ local[p].tenant_id = "t2"
        /\ \E a \in agents : a.tenant_id = "t1"
        /\ calls = <<>> /\ txns = <<>>

----------------------------------------------------------------------------
(* Signals: one delivery, any shape of the analysis *)

MetricsShapes ==
    {Container(k, NoMetrics) : k \in {"missing", "null", "number", "list"}}
    \cup {Container("dict", f) :
            f \in [frustration_velocity : {"missing", "null", "RISING"},
                   agent_iq : {"missing", "null", "0.9"},
                   avg_sentiment : {"missing", "0.5"},
                   correction_count : {"missing", "null", "3"}]}

SignalShapes ==
    {Container(k, NoSignals) : k \in {"missing", "null", "number", "list"}}
    \cup {Container("dict", f) :
            f \in [sentiment_score : {"missing", "null", "0.7"},
                   is_churn_risk : {"missing", "null", PyTrue},
                   is_hot_lead : {"missing", PyTrue},
                   priority_level : {"missing", "null", "HIGH"}]}

AnalysisShapes ==
    {NoAnalysis,
     Analysis("empty", Container("missing", NoMetrics), Container("missing", NoSignals))}
    \cup {Analysis("dict", m, b) : m \in MetricsShapes, b \in SignalShapes}

SignalsEvents ==
    {SessionReportPayload("s1", Anonymous, None, "a1", None, 600, an) :
        an \in AnalysisShapes}

NextSignals ==
    \E p \in {1} :
        \/ \E ev \in SignalsEvents : DuplicateCheck(p, ev)
        \/ ResolveAgent(p)
        \/ WalletRead(p)
        \/ Commit(p)

SpecSignals == Init /\ [][NextSignals]_vars

\* C10. Defensive signal extraction: without an analysis, or with
\* business_signals null, a number, a list or missing, the ingestion does
\* not fail and its call log has no sentiment score, both flags False and
\* priority NORMAL; with metrics null, no dict or missing, it does not fail
\* and its call log has correction count 0 and no other metric.
C10_DefensiveSignalExtraction ==
    \A p \in RetryDeliveries :
        LET an == event[p].analysis
            noSignals == an.kind # "dict" \/ an.business_signals.kind # "dict"
            noMetrics == an.kind # "dict" \/ an.metrics.kind # "dict"
        IN  /\ (Resolved(p) /\ (noSignals \/ noMetrics)) => phase[p] # "failed"
            /\ \A i \in RowsOf(SessionId(p)) :
                 /\ (phase[p] = "ingested" /\ noSignals)
                    => /\ calls[i].signals.is_churn_risk = PyFalse
                       /\ calls[i].signals.is_hot_lead = PyFalse
                       /\ calls[i].signals.priority_level = "NORMAL"
                       /\ calls[i].signals.sentiment_score = None
                 /\ (phase[p] = "ingested" /\ noMetrics)
                    => /\ calls[i].signals.correction_count = "0"
                       /\ calls[i].signals.frustration_velocity = None
                       /\ calls[i].signals.agent_iq = None
                       /\ calls[i].signals.avg_sentiment = None

C10_Witness ==
    \E p \in RetryDeliveries :
        /\ phase[p] = "ingested"
        /\ event[p].analysis.kind = "dict"
        /\ event[p].analysis.business_signals.kind = "number"
        /\ event[p].analysis.metrics.kind = "dict"
        /\ event[p].analysis.metrics.f.correction_count = "3"
        /\ \E i \in RowsOf(SessionId(p)) :
             /\ calls[i].signals.correction_count = "3"
             /\ calls[i].signals.is_churn_risk = PyFalse

----------------------------------------------------------------------------
(* Malformed input: one delivery, any timestamps, values of any type *)

StartTimes == {None, "2024-01-01T10:00:00Z", "yesterday"}
EndTimes == {None, "2024-01-01T10:02:05+00:00", "soon"}

\* Sub-objects of any shape whose keys, when they are dicts, are missing,
\* null, of the type of their column or of another type.
TypedMetrics ==
    {Container(k, NoMetrics) : k \in {"missing", "null", "number", "list"}}
    \cup {Container("dict", [NoMetrics EXCEPT !.correction_count = c, !.agent_iq = q]) :
            c \in {"missing", "null", "3", "many"},
            q \in {"missing", "0.9", "high"}}

TypedSignals ==
    {Container(k, NoSignals) : k \in {"missing", "null", "number", "list"}}
    \cup {Container("dict", [NoSignals EXCEPT !.is_churn_risk = c, !.priority_level = l]) :
            c \in {"missing", "null", PyTrue, "yes"},
            l \in {"missing", "HIGH", "7"}}

TypedShapes ==
    {NoAnalysis} \cup {Analysis("dict", m, b) : m \in TypedMetrics, b \in TypedSignals}

WithTimes(ev, st, et) == [ev EXCEPT !.start_time = st, !.end_time = et]

MalformedEvents ==
    {WithTimes(SessionReportPayload("s1", Anonymous, None, aid, None, 600, an), st, et) :
        aid \in {"a1", "a3", "zz"}, an \in TypedShapes,
        st \in StartTimes, et \in EndTimes}

NextMalformed ==
    \E p \in {1} :
        \/ \E ev \in MalformedEvents : DuplicateCheck(p, ev)
        \/ ResolveAgent(p)
        \/ WalletRead(p)
        \/ Commit(p)

SpecMalformed == Init /\ [][NextMalformed]_vars

\* C11. Malformed input never aborts the ingestion: a delivery that is no
\* duplicate, whose agent was resolved and that met no storage failure ends
\* in ingested, whatever its timestamps and the shape and values of its
\* analysis; none ends in rejected or failed for them.
C11_MalformedNeverAborts ==
    \A p \in RetryDeliveries :
        ( /\ phase[p] \in Terminal
          /\ phase[p] # "duplicate"
          /\ local[p].agent # NoAgent
          /\ local[p].error # "StorageError" )
        => phase[p] = "ingested"

\* C20. Type mismatches degrade to the default: whatever the sub-objects of
\* the analysis hold under their keys, null and values of another type
\* included, every committed call log has an integer correction count, two
\* boolean flags and a string priority level, and no ingestion is aborted
\* by an exception of the extraction of the signals.
C20_TypeMismatchDefaults ==
    /\ \A i \in 1..Len(calls) :
          /\ TypeOf(calls[i].signals.correction_count) = "INTEGER"
          /\ TypeOf(calls[i].signals.is_churn_risk) = "BOOLEAN"
          /\ TypeOf(calls[i].signals.is_hot_lead) = "BOOLEAN"
          /\ TypeOf(calls[i].signals.priority_level) = "VARCHAR"
    /\ \A p \in RetryDeliveries :
          phase[p] = "failed" => local[p].error # "AttributeError"

----------------------------------------------------------------------------
(* Outcomes: concurrent deliveries that may end in any of the outcomes *)

OutcomeShapes ==
    {NoAnalysis,
     Analysis("dict", Container("number", NoMetrics), Container("list", NoSignals))}

OutcomeEvents ==
    {SessionReportPayload("s1", Anonymous, None, aid, None, 600, an) :
        aid \in {"a1", "zz"}, an \in OutcomeShapes}

NextOutcomes ==
    \E p \in Deliveries :
        \/ \E ev \in OutcomeEvents : DuplicateCheck(p, ev)
        \/ \E ev \in OutcomeEvents : DuplicateCheckFails(p, ev)
        \/ LookupFails(p)
        \/ Step(p)

\* The event loop runs every handler on: each await on the database returns
\* or raises.
Fairness == \A p \in Deliveries : WF_vars(Step(p))

SpecOutcomes == Init /\ [][NextOutcomes]_vars /\ Fairness

\* The errors a call of the database raises.
PersistenceErrors == {"StorageError", "IntegrityError", "DataError"}

\* The moves of a handler from stage to stage.
StageOrder ==
    { <<"idle", "resolving">>, <<"idle", "duplicate">>, <<"idle", "failed">>,
      <<"resolving", "persisting">>, <<"resolving", "rejected">>,
      <<"resolving", "failed">>,
      <<"persisting", "ingested">>, <<"persisting", "duplicate">>,
      <<"persisting", "failed">> }

\* C12. Every processing of an event ends in exactly one of ingested,
\* duplicate, rejected and failed and stays there, after the duplicate check,
\* the resolution, the computation and the persisting in this order;
\* rejected comes from the resolution only, failed only with an error raised
\* by the storage, duplicate only from the duplicate check with a committed
\* call log of the session id or from a violation of the key at the commit.
C12_TerminalOutcomes ==
    /\ [][\A p \in RetryDeliveries :
            /\ phase[p] \in Terminal => phase'[p] = phase[p]
            /\ phase'[p] # phase[p] =>
                 /\ <<phase[p], phase'[p]>> \in StageOrder
                 /\ phase'[p] = "persisting" =>
                      /\ local'[p].agent # NoAgent
                      /\ local'[p].call_log.id = event[p].session_id
                      /\ local'[p].call_log.cost_euros = local'[p].cost
                 /\ phase'[p] = "rejected" =>
                      phase[p] = "resolving" /\ local'[p].agent = NoAgent
                 /\ phase'[p] = "failed" => local'[p].error \in PersistenceErrors
                 /\ phase'[p] = "duplicate" =>
                      \/ phase[p] = "idle" /\ RowsOf(event'[p].session_id) # {}
                      \/ /\ phase[p] = "persisting" /\ local[p].pc = "commit"
                         /\ local'[p].error = "IntegrityError"
                         /\ RowsOf(event[p].session_id) # {}
                 /\ phase'[p] = "ingested" =>
                      phase[p] = "persisting" /\ local[p].pc = "commit"
       ]_vars
    /\ \A p \in Deliveries : (phase[p] # "idle") ~> (phase[p] \in Terminal)

----------------------------------------------------------------------------
(* The ledger, over the concurrent deliveries of the billing *)

RECURSIVE SumOfAmounts(_, _)
SumOfAmounts(n, w) ==
    IF n = 0 THEN 0
    ELSE (IF txns[n].wallet_id = w THEN txns[n].amount_euros ELSE 0)
         + SumOfAmounts(n - 1, w)

\* C13. The ledger: every wallet's balance is its initial balance plus the
\* amounts of all the transactions on it, and no commit changes a balance
\* without adding a transaction that references the session id ingested.
C13_LedgerInvariant ==
    /\ [](\A w \in WalletIds :
            wallets[w] = InitialBalance + SumOfAmounts(Len(txns), w))
    /\ [][wallets' # wallets =>
            \E p \in RetryDeliveries :
                /\ phase[p] = "persisting" /\ phase'[p] = "ingested"
                /\ Len(txns') = Len(txns) + 1
                /\ txns'[Len(txns')].reference_id = SessionId(p)
         ]_vars

\* C14. Cost and amount: every transaction references the session id of a
\* committed call log and its amount is the negation of that call log's
\* cost.
C14_CostAmountInvariant ==
    \A i \in 1..Len(txns) :
        /\ RowsOf(txns[i].reference_id) # {}
        /\ \A j \in RowsOf(txns[i].reference_id) :
             txns[i].amount_euros = 0 - calls[j].cost_euros

C14_Witness ==
    \E i \in 1..Len(txns) : \E j \in 1..Len(calls) :
        /\ calls[j].id = txns[i].reference_id
        /\ calls[j].cost_euros = 52
        /\ txns[i].amount_euros = 0 - 52

\* C15. No unbilled call log: every committed call log whose agent names a
\* wallet that exists has exactly one transaction of its session id, and
\* the commit that adds the call log adds that transaction with it.
C15_NoUnbilledRecord ==
    /\ [](\A j \in 1..Len(calls) :
            \A a \in {x \in agents : x.agent_id = calls[j].agent_id} :
                HasWallet(a) => Cardinality(TxnsOf(calls[j].id)) = 1)
    /\ [][calls' # calls =>
            \E row \in {calls'[Len(calls')]} :
                /\ calls' = Append(calls, row)
                /\ \A a \in {x \in agents : x.agent_id = row.agent_id} :
                     HasWallet(a) =>
                        /\ Len(txns') = Len(txns) + 1
                        /\ txns'[Len(txns')].reference_id = row.id
                        /\ txns'[Len(txns')].wallet_id = a.wallet_id
         ]_vars

C15_Witness ==
    /\ Len(calls) = 2 /\ Len(txns) = 1
    /\ \E j \in 1..Len(calls) : calls[j].agent_id = "a1" /\ TxnsOf(calls[j].id) # {}
    /\ \E j \in 1..Len(calls) : calls[j].agent_id = "a4" /\ TxnsOf(calls[j].id) = {}

----------------------------------------------------------------------------
(* The chain of the resolver, over any directory *)

\* What each step of the chain matches for a delivery, with the tenant id
\* the handler holds after the claims.
IdMatches(p) ==
    {a \in agents : event[p].agent_id # None /\ a.agent_id = event[p].agent_id}
NameMatches(p) ==
    {a \in agents : event[p].agent_name # None /\ a.agent_name = event[p].agent_name}
TenantMatches(p, tid) == {a \in agents : tid # None /\ a.tenant_id = tid}
NameTenantMatches(p, tid) == NameMatches(p) \cap TenantMatches(p, tid)

\* C16. The earliest step that matches decides: an agent of the supplied
\* id is chosen whatever name and tenant are supplied; the name and tenant
\* are used only when no agent has the id, the name alone only when no
\* agent has the name in the tenant, and the tenant alone only when no
\* agent has the name or none was supplied.
C16_EarliestStepWins ==
    \A p \in RetryDeliveries :
        Resolved(p) =>
            LET a == local[p].agent
                tid == local[p].tenant_id
            IN  /\ IdMatches(p) # {} => a \in IdMatches(p)
                /\ (IdMatches(p) = {} /\ NameTenantMatches(p, tid) # {})
                   => a \in NameTenantMatches(p, tid)
                /\ (IdMatches(p) = {} /\ NameTenantMatches(p, tid) = {}
                      /\ NameMatches(p) # {})
                   => a \in NameMatches(p)
                /\ (IdMatches(p) = {} /\ NameMatches(p) = {})
                   => IF TenantMatches(p, tid) = {} THEN phase[p] = "rejected"
                      ELSE a \in TenantMatches(p, tid)

C16_Witness ==
    \E p \in RetryDeliveries :
        /\ Resolved(p)
        /\ event[p].agent_id = "a1"
        /\ event[p].agent_name = "demo" /\ event[p].tenant_id = "t2"
        /\ \E a \in agents : a.agent_id = "a2"
        /\ local[p].agent.agent_id = "a1"

\* C17. The tenant default is an active agent of the tenant: an agent
\* resolved by the last step belongs to the tenant id the handler holds and
\* is active, and when every agent of that tenant is inactive the
\* resolution fails.
C17_ActiveTenantDefault ==
    \A p \in RetryDeliveries :
        (Resolved(p) /\ IdMatches(p) = {} /\ NameMatches(p) = {})
        => LET a == local[p].agent
               tid == local[p].tenant_id
           IN  /\ phase[p] # "rejected" => (a.tenant_id = tid /\ a.is_active)
               /\ (\A x \in TenantMatches(p, tid) : ~x.is_active)
                  => phase[p] = "rejected"

\* C18. The tenant of the claims is a fallback only: with a tenant id in
\* the event, that one is the tenant id of every step of the resolution,
\* whatever the token holds; the tenant of the token is used only without
\* one in the event.
C18_SuppliedTenantWins ==
    \A p \in RetryDeliveries :
        Resolved(p) =>
            LET ev == event[p]
                a == local[p].agent
            IN  /\ ev.tenant_id # None =>
                     /\ local[p].tenant_id = ev.tenant_id
                     /\ (IdMatches(p) = {} /\ NameTenantMatches(p, ev.tenant_id) # {})
                        => a \in NameTenantMatches(p, ev.tenant_id)
                     /\ (IdMatches(p) = {} /\ NameMatches(p) = {}
                           /\ phase[p] # "rejected")
                        => a.tenant_id = ev.tenant_id
                /\ ev.tenant_id = None =>
                     local[p].tenant_id \in {None, ev.user_id.tenant_id}

C18_Witness ==
    \E p \in RetryDeliveries :
        /\ Resolved(p)
        /\ event[p].user_id.segment = "claims" /\ event[p].user_id.long
        /\ event[p].user_id.tenant_id = "t2"
        /\ event[p].tenant_id = "t1"
        /\ event[p].agent_id = None /\ event[p].agent_name = "demo"
        /\ \E x \in agents : x.agent_id = "a2"
        /\ local[p].agent.agent_id = "a1"

----------------------------------------------------------------------------
(* Claims: one delivery, any user_id *)

\* Beside the user ids of the resolution: a long id without a ".", tokens
\* whose second segment is empty, base64 of no JSON, or JSON that is no
\* object, and a token whose claims hold neither sub nor tenant_id.
ClaimUserIds ==
    UserIds \cup
    { UserId("long-plain", FALSE, TRUE, "none", None, None),
      UserId("jwt-empty-segment", TRUE, TRUE, "empty", None, None),
      UserId("jwt-not-json", TRUE, TRUE, "not_json", None, None),
      UserId("jwt-json-list", TRUE, TRUE, "json_list", None, None),
      UserId("jwt-no-claims", TRUE, TRUE, "claims", None, None) }

ClaimEvents ==
    {SessionReportPayload("s1", uid, name, None, tid, 600, NoAnalysis) :
        uid \in ClaimUserIds, name \in {None, "demo"}, tid \in {None, "t1", "t4"}}

NextClaims ==
    \E p \in {1} :
        \/ \E ev \in ClaimEvents : DuplicateCheck(p, ev)
        \/ ResolveAgent(p)
        \/ WalletRead(p)
        \/ Commit(p)

SpecClaims == InitResolve /\ [][NextClaims]_vars

\* C19. The claims are decoded only from a user_id with a "." and more than
\* 50 characters; without the attempt, or when the decoding fails, the user
\* id is the string as sent, no tenant id is recovered, and the ingestion
\* goes on to the resolution: it is not failed, and it is rejected only
\* when the fields of the event match no agent.
C19_ClaimsDecodeFallback ==
    \A p \in RetryDeliveries :
        LET ev == event[p]
            uid == ev.user_id
            attempted == uid.dotted /\ uid.long
            decoded == attempted /\ uid.segment = "claims"
        IN  (Resolved(p) /\ ~decoded) =>
                /\ local[p].user_id = uid.text
                /\ local[p].tenant_id = ev.tenant_id
                /\ phase[p] # "failed"
                /\ phase[p] = "rejected" =>
                     /\ IdMatches(p) = {} /\ NameMatches(p) = {}
                     /\ TenantMatches(p, ev.tenant_id) = {}
                /\ \A i \in RowsOf(ev.session_id) : calls[i].caller_id = uid.text

C19_Witness ==
    \E p \in RetryDeliveries :
        /\ phase[p] = "ingested"
        /\ event[p].user_id.segment = "json_list"
        /\ event[p].tenant_id = None
        /\ \E i \in RowsOf(SessionId(p)) : calls[i].caller_id = "jwt-json-list"

----------------------------------------------------------------------------
(* The pre-check, among deliveries that may end in any of the outcomes *)

\* C21. The duplicate check comes before the resolution: a delivery of a
\* session id of which a call log is committed answers duplicate, never
\* rejected, also when its agent id, name and tenant match no agent, and it
\* has then read no agent and no wallet and written nothing; a storage
\* error of the pre-check itself apart.
C21_DuplicateBeforeResolution ==
    [][\A p \in RetryDeliveries :
         ( /\ phase[p] = "idle" /\ phase'[p] # "idle"
           /\ RowsOf(event'[p].session_id) # {}
           /\ local'[p].error # "StorageError" )
         => /\ phase'[p] = "duplicate"
            /\ local'[p].agent = NoAgent
            /\ ~local'[p].wallet_found
            /\ local'[p].call_log = NoRow /\ local'[p].txn = NoTxn
            /\ agents' = agents
            /\ calls' = calls /\ wallets' = wallets /\ txns' = txns
      ]_vars

C21_Witness ==
    \E p \in Deliveries :
        /\ phase[p] = "duplicate" /\ local[p].error = None
        /\ event[p].agent_id = "zz"
        /\ IdMatches(p) = {} /\ NameMatches(p) = {}
        /\ \E i \in RowsOf(SessionId(p)) : calls[i].agent_id = "a1"

----------------------------------------------------------------------------
(* Call logs, responses and overdrafts, over the deliveries of the billing *)

\* C22. Call logs are immutable: a committed call log is neither changed
\* nor removed by any later step of any ingestion.
C22_CallLogsImmutable ==
    [][ /\ Len(calls') >= Len(calls)
        /\ \A i \in 1..Len(calls) : calls'[i] = calls[i]
      ]_vars

C22_Witness ==
    /\ Len(calls) = 2
    /\ calls[1].id # calls[2].id
    /\ calls[1].agent_id # calls[2].agent_id

\* Lines 253-258: the answer of an ingestion that went through.
Response(p) ==
    [status |-> phase[p], session_id |-> event[p].session_id,
     agent_id |-> local[p].agent.agent_id, cost_euros |-> local[p].cost]

\* C23. An ingested answer reflects the committed state: with an answer
\* ingested the store holds a call log of the answer's session id, agent id
\* and cost, and the answer turns ingested in the step that commits that
\* call log, never before it and never with a rollback.
C23_IngestedReflectsCommit ==
    /\ [](\A p \in RetryDeliveries :
            Response(p).status = "ingested" =>
               \E i \in 1..Len(calls) :
                  /\ calls[i].id = Response(p).session_id
                  /\ calls[i].agent_id = Response(p).agent_id
                  /\ calls[i].cost_euros = Response(p).cost_euros)
    /\ [][\A p \in RetryDeliveries :
            (phase'[p] = "ingested" /\ phase[p] # "ingested")
            => /\ Len(calls') = Len(calls) + 1
               /\ calls'[Len(calls')].id = event[p].session_id
               /\ local'[p].error = None
         ]_vars

C23_Witness ==
    \E p \in Deliveries :
        /\ Response(p).status = "ingested"
        /\ Response(p).agent_id = "a4"
        /\ Response(p).cost_euros = 52
        /\ \E q \in Deliveries : phase[q] = "failed"

\* C24. No overdraft is refused: the commit of an ingestion whose cost is
\* more than the balance it read answers ingested, adds its call log and
\* its transaction and leaves the wallet at that balance minus the cost, a
\* negative one; the ingestion is not rejected or failed by it.
C24_NoOverdraftRejection ==
    [][\A p \in RetryDeliveries :
         LET w == local[p].agent.wallet_id
             cost == local[p].call_log.cost_euros
             read == local[p].balance_read
         IN  ( /\ phase[p] = "persisting" /\ local[p].pc = "commit"
               /\ phase'[p] # "persisting"
               /\ local[p].wallet_found /\ cost > read
               /\ local'[p].error = None )
             => /\ phase'[p] = "ingested"
                /\ wallets'[w] = read - cost /\ wallets'[w] < 0
                /\ Len(calls') = Len(calls) + 1
                /\ Len(txns') = Len(txns) + 1
                /\ txns'[Len(txns')].amount_euros = 0 - cost
      ]_vars

C24_Witness ==
    \E p \in Deliveries :
        /\ phase[p] = "ingested" /\ local[p].wallet_found
        /\ wallets[local[p].agent.wallet_id] < 0
        /\ Len(txns) = 2

----------------------------------------------------------------------------
(* Cost: concurrent deliveries of calls of close durations *)

CostDurations == {600, 1250, 1259}

CostEvents ==
    {SessionReportPayload(sid, Anonymous, None, aid, None, d, NoAnalysis) :
        sid \in Sessions, aid \in {"a1", "a4"}, d \in CostDurations}

NextCost ==
    \E p \in Deliveries :
        \/ \E ev \in CostEvents : DuplicateCheck(p, ev)
        \/ ResolveAgent(p)
        \/ WalletRead(p)
        \/ Commit(p)

SpecCost == Init /\ [][NextCost]_vars

\* The whole seconds of the duration of a delivery.
WholeSeconds(p) == event[p].duration_seconds \div 10

\* The cost of a number of seconds at a rate in cents per minute, rounded
\* to the cent.
CostAtRate(secs, rate) == (secs * rate + 30) \div 60

\* The call log and the debit of an ingested delivery carry this cost and
\* the whole seconds of its duration.
Billed(p, cost) ==
    /\ \A i \in RowsOf(SessionId(p)) :
          /\ calls[i].duration_seconds = WholeSeconds(p)
          /\ calls[i].cost_euros = cost
    /\ local[p].wallet_found =>
          \A i \in TxnsOf(SessionId(p)) : txns[i].amount_euros = 0 - cost

\* C25. The cost of a call is that of the whole seconds of its
\* duration at the per-minute rate of the resolved agent: 125 seconds at 25
\* cents a minute cost 52 cents; the call log holds 125 and that cost and
\* the wallet is debited by it; two calls of one agent with the same whole
\* seconds cost the same.
C25_CostAtAgentRate ==
    /\ \A p \in RetryDeliveries :
          phase[p] = "ingested" =>
             /\ Billed(p, CostAtRate(WholeSeconds(p), local[p].agent.cost_per_minute))
             /\ (WholeSeconds(p) = 125 /\ local[p].agent.cost_per_minute = 25)
                => Billed(p, 52)
    /\ \A p, q \in RetryDeliveries :
          ( /\ phase[p] = "ingested" /\ phase[q] = "ingested"
            /\ local[p].agent = local[q].agent
            /\ WholeSeconds(p) = WholeSeconds(q) )
          => local[p].cost = local[q].cost

----------------------------------------------------------------------------
(* Timestamps, over the malformed deliveries *)

\* C26. The fallback of the timestamps: without a start, or when the start
\* or the end does not parse, the call log's start is the time of the
\* ingestion; when either does not parse its end is absent, a start that
\* parsed being dropped with an end that does not; and no ingestion is
\* failed for a timestamp.
C26_TimestampFallback ==
    \A p \in RetryDeliveries :
        LET ev == event[p]
            startAbsent == ev.start_time = None
            startFails == ev.start_time # None /\ ~Parses(ev.start_time)
            endFails == ev.end_time # None /\ ~Parses(ev.end_time)
        IN  /\ phase[p] = "ingested" =>
                 \A i \in RowsOf(ev.session_id) :
                    /\ (startAbsent \/ startFails \/ endFails)
                       => calls[i].start_time = UtcNow
                    /\ (startFails \/ endFails) => calls[i].end_time = None
                    /\ ~(startAbsent \/ startFails \/ endFails)
                       => calls[i].start_time = IsoFormat[ev.start_time]
            /\ ( /\ phase[p] \in Terminal /\ local[p].agent # NoAgent
                  /\ ev.analysis = NoAnalysis )
               => phase[p] = "ingested"

C26_Witness ==
    \E p \in RetryDeliveries :
        /\ phase[p] = "ingested"
        /\ event[p].start_time = "2024-01-01T10:00:00Z"
        /\ event[p].end_time = "soon"
        /\ \E i \in RowsOf(SessionId(p)) :
             calls[i].start_time = UtcNow /\ calls[i].end_time = None

----------------------------------------------------------------------------
(* The directory of agents changes while reports are ingested *)

DirectoryEvents ==
    {SessionReportPayload("s1", Anonymous, None, aid, None, 600, NoAnalysis) :
        aid \in {"a1", "a3"}}

NextDirectory ==
    \/ \E p \in Deliveries :
          \/ \E ev \in DirectoryEvents : DuplicateCheck(p, ev)
          \/ Step(p)
    \/ \E a \in AgentPool : RemoveAgent(a)

SpecDirectory == Init /\ [][NextDirectory]_vars /\ Fairness

\* C27. A duplicate answer implies a record: whenever a delivery is
\* answered duplicate, by the check or by an integrity error of the commit,
\* a committed call log of its session id is in the store; an integrity
\* error of another constraint than the key of the call logs does not give
\* a duplicate.
C27_DuplicateImpliesRecord ==
    \A p \in RetryDeliveries :
        phase[p] = "duplicate" => RowsOf(event[p].session_id) # {}

----------------------------------------------------------------------------
(* The frame of an ingestion, over reports resolved at every step *)

FrameEvents ==
    {SessionReportPayload(sid, Anonymous, k[1], k[2], k[3], 600, NoAnalysis) :
        sid \in Sessions,
        k \in { <<None, "a1", None>>, <<"sales", None, None>>,
                <<None, None, "t2">>, <<None, "zz", None>> }}

NextFrame ==
    \E p \in Deliveries :
        \/ \E ev \in FrameEvents : DuplicateCheck(p, ev)
        \/ \E ev \in FrameEvents : DuplicateCheckFails(p, ev)
        \/ LookupFails(p)
        \/ Step(p)

SpecFrame == Init /\ [][NextFrame]_vars

\* The step is the commit of delivery p's ingestion.
Ingests(p) == phase[p] # "ingested" /\ phase'[p] = "ingested"

\* C28. The frame of an ingestion: its commit changes at most the balance
\* of the wallet that the resolved agent names, adds at most one
\* transaction, which has that wallet id and the agent's tenant id, and
\* changes no other wallet, whatever step of the resolution found the
\* agent; no step changes an agent; and every other step, those that end a
\* delivery in duplicate, rejected or failed included, changes no wallet,
\* transaction or call log.
C28_IngestionFrame ==
    [][ /\ agents' = agents
        /\ \A p \in RetryDeliveries :
              Ingests(p) =>
                 LET ag == local[p].agent
                 IN  /\ ag \in agents
                     /\ \A w \in WalletIds :
                           w # ag.wallet_id => wallets'[w] = wallets[w]
                     /\ \/ txns' = txns /\ wallets' = wallets
                        \/ /\ Len(txns') = Len(txns) + 1
                           /\ SubSeq(txns', 1, Len(txns)) = txns
                           /\ txns'[Len(txns')].wallet_id = ag.wallet_id
                           /\ txns'[Len(txns')].tenant_id = ag.tenant_id
                           /\ ag.wallet_id \in WalletIds
        /\ (\A p \in RetryDeliveries : ~Ingests(p))
           => UNCHANGED <<calls, wallets, txns>>
      ]_vars

C28_Witness ==
    \E p \in Deliveries :
        /\ phase[p] = "ingested"
        /\ event[p].agent_id = None /\ event[p].agent_name = None
        /\ event[p].tenant_id = "t2"
        /\ local[p].agent.agent_id = "a2"
        /\ wallets["w2"] < InitialBalance
        /\ wallets["w1"] = InitialBalance
        /\ \E q \in Deliveries : phase[q] = "failed"

====
